---- MODULE Spec2Model ----
(***************************************************************************)
(* Model of scripts/build.py: main() submits the build tasks to a          *)
(* ThreadPoolExecutor, waits for build_types, starts the api-extractor     *)
(* tasks (on the pool, or inline when NO_CONCURRENT_CONVEX_NPM_BUILD is    *)
(* set) and collects the children with as_completed.                       *)
(*                                                                         *)
(* A task body is subprocess.run(..., check=True): it either returns       *)
(* (outcome "ok") or raises CalledProcessError (outcome "failed").         *)
(***************************************************************************)
EXTENDS Naturals, Sequences, FiniteSets, TLC

\* How many of the five wave-1 builds, and of the six api-extractor
\* packages, a run of the model registers, and the size of its pool.
\* build.py has 5, 6 and ThreadPoolExecutor(max_workers=8); the model keeps
\* the relations 1 + NumWave1 <= MaxWorkers < NumWave1 + NumPkgs
\* (6 <= 8 < 11 in build.py): the tasks submitted before the wait on
\* build_types fit the pool, the children submitted after it do not.
NumWave1 == 2
NumPkgs == 3
MaxWorkers == 3

\* e1 = pool.submit(build_types)
TypesTask == "build_types"

\* the futures appended to children before the wait on e1, in order
AllWave1 == << "build_cjs", "build_esm", "build_browser_script_tag",
               "build_react_script_tag", "build_standalone_cli" >>

\* the list iterated by `for pkg in [...]`; a package names its
\* build_api_extractor(pkg) task
AllPkgs == << "browser", "server", "react", "values", "react-auth0", "react-clerk" >>

Min(a, b) == IF a < b THEN a ELSE b

Wave1 == SubSeq(AllWave1, 1, Min(NumWave1, Len(AllWave1)))
Pkgs == SubSeq(AllPkgs, 1, Min(NumPkgs, Len(AllPkgs)))

Range(s) == { s[k] : k \in 1..Len(s) }

Wave1Tasks == Range(Wave1)
ApiTasks == Range(Pkgs)
Tasks == {TypesTask} \cup Wave1Tasks \cup ApiTasks

VARIABLES
    env,        \* os.getenv("NO_CONCURRENT_CONVEX_NPM_BUILD") is truthy
    pc,         \* position of the main thread in main()
    i,          \* index of the next element of Wave1 / Pkgs to handle
    queue,      \* the pool's FIFO work queue (submitted, not yet picked up)
    threads,    \* number of worker threads the pool has spawned
    idle,       \* the pool's idle semaphore
    st,         \* per task: "new", "pending", "running", "ok", "failed"
    submits,    \* per task: number of pool.submit calls for it
    runs,       \* per task: number of times its body was entered
    children,   \* the list `children`
    yielded,    \* futures as_completed has already handed to the loop
    exitCode,   \* "none" until main() ends, then 0 or 1
    uncaught,   \* an exception left main() uncaught (traceback printed)
    backlog,    \* history: some submit found MaxWorkers tasks unfinished
    output,     \* the lines main() has written to standard output
    lateStart   \* history: an api-extractor body was entered after some
                \* task body had already failed

vars == << env, pc, i, queue, threads, idle, st, submits, runs,
           children, yielded, exitCode, uncaught, backlog, output, lateStart >>

Finished(t) == st[t] \in {"ok", "failed"}

\* tasks whose body is executing on a pool worker
RunningOnPool == { t \in Tasks : st[t] = "running" /\ submits[t] > 0 }

\* tasks handed to the pool whose future has no result yet
Unfinished == { t \in Tasks : submits[t] > 0 /\ ~Finished(t) }

\* some task body has raised CalledProcessError
SomeFailed == \E t \in Tasks : st[t] = "failed"

\* the task was handed to the pool or called on the main thread
Launched(t) == submits[t] > 0 \/ runs[t] > 0

Init ==
    /\ env \in BOOLEAN
    /\ pc = "submit_types"
    /\ i = 1
    /\ queue = << >>
    /\ threads = 0
    /\ idle = 0
    /\ st = [t \in Tasks |-> "new"]
    /\ submits = [t \in Tasks |-> 0]
    /\ runs = [t \in Tasks |-> 0]
    /\ children = << >>
    /\ yielded = {}
    /\ exitCode = "none"
    /\ uncaught = FALSE
    /\ backlog = FALSE
    /\ output = << >>
    /\ lateStart = FALSE

(***************************************************************************)
(* The pool                                                                *)
(***************************************************************************)

\* faulty variant: the pool spawns a thread for every work item
Submit_Unbounded(t) ==
    /\ queue' = Append(queue, t)
    /\ st' = [st EXCEPT ![t] = "pending"]
    /\ submits' = [submits EXCEPT ![t] = @ + 1]
    /\ backlog' = (backlog \/ Cardinality(Unfinished) >= MaxWorkers)
    /\ IF idle > 0
          THEN idle' = idle - 1 /\ threads' = threads
          ELSE idle' = idle /\ threads' = threads + 1

\* faulty variant: a work item submitted while every worker is taken is
\* not enqueued
Submit_DropWhenFull(t) ==
    /\ queue' = IF idle = 0 /\ threads = MaxWorkers THEN queue ELSE Append(queue, t)
    /\ st' = [st EXCEPT ![t] = "pending"]
    /\ submits' = [submits EXCEPT ![t] = @ + 1]
    /\ backlog' = (backlog \/ Cardinality(Unfinished) >= MaxWorkers)
    /\ IF idle > 0
          THEN idle' = idle - 1 /\ threads' = threads
          ELSE /\ idle' = idle
               /\ threads' = IF threads < MaxWorkers THEN threads + 1 ELSE threads

\* pool.submit(fn): enqueue the work item; reuse an idle worker if the
\* semaphore says there is one, otherwise spawn a thread below the limit
Submit(t) ==
    /\ queue' = Append(queue, t)
    /\ st' = [st EXCEPT ![t] = "pending"]
    /\ submits' = [submits EXCEPT ![t] = @ + 1]
    /\ backlog' = (backlog \/ Cardinality(Unfinished) >= MaxWorkers)
    /\ IF idle > 0
          THEN idle' = idle - 1 /\ threads' = threads
          ELSE /\ idle' = idle
               /\ threads' = IF threads < MaxWorkers THEN threads + 1 ELSE threads

\* a worker thread blocked on the queue takes the oldest work item and
\* enters the task body
WorkerStart ==
    /\ pc # "terminated"
    /\ queue # << >>
    /\ Cardinality(RunningOnPool) < threads
    /\ st' = [st EXCEPT ![Head(queue)] = "running"]
    /\ runs' = [runs EXCEPT ![Head(queue)] = @ + 1]
    /\ queue' = Tail(queue)
    /\ lateStart' = (lateStart \/ (Head(queue) \in ApiTasks /\ SomeFailed))
    /\ UNCHANGED << env, pc, i, threads, idle, submits, children, yielded,
                    exitCode, uncaught, backlog, output >>

\* a task body on a worker returns or raises CalledProcessError; the
\* future gets its result and the worker releases the idle semaphore
\* (one step: the release only decides whether a later submit spawns a
\* thread or reuses this one)
WorkerFinish(t, outcome) ==
    /\ pc # "terminated"
    /\ t \in RunningOnPool
    /\ st' = [st EXCEPT ![t] = outcome]
    /\ idle' = idle + 1
    /\ UNCHANGED << env, pc, i, queue, threads, submits, runs, children,
                    yielded, exitCode, uncaught, backlog, output, lateStart >>

(***************************************************************************)
(* main()                                                                  *)
(***************************************************************************)

\* faulty variant: main() waits on e1 right after submitting it, before the
\* wave-1 builds are submitted
SubmitTypes_ThenWait ==
    /\ pc = "submit_types"
    /\ Submit(TypesTask)
    /\ pc' = "wait_e1"
    /\ UNCHANGED << env, i, runs, children, yielded, exitCode, uncaught, output, lateStart >>

\* e1 = pool.submit(build_types)
SubmitTypes ==
    /\ pc = "submit_types"
    /\ Submit(TypesTask)
    /\ pc' = "submit_wave1"
    /\ UNCHANGED << env, i, runs, children, yielded, exitCode, uncaught, output, lateStart >>

\* children.append(pool.submit(build_cjs)) ... build_standalone_cli
SubmitWave1 ==
    /\ pc = "submit_wave1"
    /\ Submit(Wave1[i])
    /\ children' = Append(children, Wave1[i])
    /\ IF i = Len(Wave1)
          THEN pc' = "wait_e1" /\ i' = 1
          ELSE pc' = pc /\ i' = i + 1
    /\ UNCHANGED << env, runs, yielded, exitCode, uncaught, output, lateStart >>

\* faulty variant: main() does not wait for e1 before the loop
TypesOk_NoWait ==
    /\ pc = "wait_e1"
    /\ pc' = "loop"
    /\ UNCHANGED << env, i, queue, threads, idle, st, submits, runs, children,
                    yielded, exitCode, uncaught, backlog, output, lateStart >>

\* faulty variant: after the wait on e1, main() leaves with sys.exit(1) if a
\* wave-1 build has already failed
TypesOk_FailFast ==
    /\ pc = "wait_e1"
    /\ st[TypesTask] = "ok"
    /\ IF \E w \in Wave1Tasks : st[w] = "failed"
          THEN pc' = "shutdown" /\ exitCode' = 1
          ELSE pc' = "loop" /\ exitCode' = exitCode
    /\ UNCHANGED << env, i, queue, threads, idle, st, submits, runs, children,
                    yielded, uncaught, backlog, output, lateStart >>

\* e1.result() returns
TypesOk ==
    /\ pc = "wait_e1"
    /\ st[TypesTask] = "ok"
    /\ pc' = "loop"
    /\ UNCHANGED << env, i, queue, threads, idle, st, submits, runs, children,
                    yielded, exitCode, uncaught, backlog, output, lateStart >>

\* faulty variant: the except clause swallows the failure of build_types
TypesFailed_Continue ==
    /\ pc = "wait_e1"
    /\ st[TypesTask] = "failed"
    /\ pc' = "loop"
    /\ UNCHANGED << env, i, queue, threads, idle, st, submits, runs, children,
                    yielded, exitCode, uncaught, backlog, output, lateStart >>

\* faulty variant: os._exit(1) in place of sys.exit(1), the process ends
\* without joining the workers
TypesFailed_OsExit ==
    /\ pc = "wait_e1"
    /\ st[TypesTask] = "failed"
    /\ pc' = "terminated"
    /\ exitCode' = 1
    /\ UNCHANGED << env, i, queue, threads, idle, st, submits, runs, children,
                    yielded, uncaught, backlog, output, lateStart >>

\* faulty variant: the failure of build_types is reported only after the
\* wave-1 builds have completed
TypesFailed_WaitWave1 ==
    /\ pc = "wait_e1"
    /\ st[TypesTask] = "failed"
    /\ \A w \in Wave1Tasks : Finished(w)
    /\ pc' = "shutdown"
    /\ exitCode' = 1
    /\ UNCHANGED << env, i, queue, threads, idle, st, submits, runs, children,
                    yielded, uncaught, backlog, output, lateStart >>

\* e1.result() raises CalledProcessError: sys.exit(1)
TypesFailed ==
    /\ pc = "wait_e1"
    /\ st[TypesTask] = "failed"
    /\ pc' = "shutdown"
    /\ exitCode' = 1
    /\ UNCHANGED << env, i, queue, threads, idle, st, submits, runs, children,
                    yielded, uncaught, backlog, output, lateStart >>

\* faulty variant: only the first package is submitted
LoopSubmit_OnlyFirst ==
    /\ pc = "loop"
    /\ i <= Len(Pkgs)
    /\ ~env
    /\ Submit(Pkgs[i])
    /\ children' = Append(children, Pkgs[i])
    /\ i' = Len(Pkgs) + 1
    /\ UNCHANGED << env, pc, runs, yielded, exitCode, uncaught, output, lateStart >>

\* loop body, toggle unset: children.append(pool.submit(build_api_extractor, pkg))
LoopSubmit ==
    /\ pc = "loop"
    /\ i <= Len(Pkgs)
    /\ ~env
    /\ Submit(Pkgs[i])
    /\ children' = Append(children, Pkgs[i])
    /\ i' = i + 1
    /\ UNCHANGED << env, pc, runs, yielded, exitCode, uncaught, output, lateStart >>

\* faulty variant: the toggle is ignored and the package goes to the pool
LoopCall_Submit ==
    /\ pc = "loop"
    /\ i <= Len(Pkgs)
    /\ env
    /\ Submit(Pkgs[i])
    /\ children' = Append(children, Pkgs[i])
    /\ i' = i + 1
    /\ UNCHANGED << env, pc, runs, yielded, exitCode, uncaught, output, lateStart >>

\* loop body, toggle set: build_api_extractor(pkg) is entered on the main thread
LoopCall ==
    /\ pc = "loop"
    /\ i <= Len(Pkgs)
    /\ env
    /\ st' = [st EXCEPT ![Pkgs[i]] = "running"]
    /\ runs' = [runs EXCEPT ![Pkgs[i]] = @ + 1]
    /\ pc' = "inline"
    /\ lateStart' = (lateStart \/ SomeFailed)
    /\ UNCHANGED << env, i, queue, threads, idle, submits, children, yielded,
                    exitCode, uncaught, backlog, output >>

\* the inline build_api_extractor(pkg) returns: next iteration
InlineOk ==
    /\ pc = "inline"
    /\ st' = [st EXCEPT ![Pkgs[i]] = "ok"]
    /\ i' = i + 1
    /\ pc' = "loop"
    /\ UNCHANGED << env, queue, threads, idle, submits, runs, children,
                    yielded, exitCode, uncaught, backlog, output, lateStart >>

\* faulty variant: a failed inline package is tried again
InlineFailed_Retry ==
    /\ pc = "inline"
    /\ st' = [st EXCEPT ![Pkgs[i]] = "failed"]
    /\ pc' = "loop"
    /\ UNCHANGED << env, i, queue, threads, idle, submits, runs, children,
                    yielded, exitCode, uncaught, backlog, output, lateStart >>

\* faulty variant: the failure of an inline package is noted and the loop
\* goes on with the next package
InlineFailed_Skip ==
    /\ pc = "inline"
    /\ st' = [st EXCEPT ![Pkgs[i]] = "failed"]
    /\ i' = i + 1
    /\ pc' = "loop"
    /\ UNCHANGED << env, queue, threads, idle, submits, runs, children,
                    yielded, exitCode, uncaught, backlog, output, lateStart >>

\* the inline build_api_extractor(pkg) raises CalledProcessError; nothing
\* in main() catches it, so the interpreter prints the traceback and the
\* exit status is 1
InlineFailed ==
    /\ pc = "inline"
    /\ st' = [st EXCEPT ![Pkgs[i]] = "failed"]
    /\ pc' = "shutdown"
    /\ exitCode' = 1
    /\ uncaught' = TRUE
    /\ UNCHANGED << env, i, queue, threads, idle, submits, runs, children,
                    yielded, backlog, output, lateStart >>

\* the for loop over the packages is exhausted: as_completed(children)
LoopEnd ==
    /\ pc = "loop"
    /\ i > Len(Pkgs)
    /\ pc' = "collect"
    /\ UNCHANGED << env, i, queue, threads, idle, st, submits, runs, children,
                    yielded, exitCode, uncaught, backlog, output, lateStart >>

\* as_completed yields a finished child and child.result() returns.
\* Children already finished when as_completed is called come out in set
\* order, the others as they finish: any finished child not yet yielded
\* may be the next one.
CollectOk ==
    /\ pc = "collect"
    /\ \E c \in Range(children) \ yielded :
          /\ st[c] = "ok"
          /\ yielded' = yielded \cup {c}
    /\ UNCHANGED << env, pc, i, queue, threads, idle, st, submits, runs,
                    children, exitCode, uncaught, backlog, output, lateStart >>

\* faulty variant: the except clause swallows a child's failure
CollectFailed_Swallow ==
    /\ pc = "collect"
    /\ \E c \in Range(children) \ yielded :
          /\ st[c] = "failed"
          /\ yielded' = yielded \cup {c}
    /\ UNCHANGED << env, pc, i, queue, threads, idle, st, submits, runs,
                    children, exitCode, uncaught, backlog, output, lateStart >>

\* faulty variant: the failure is only reported once every child has a result
CollectFailed_AwaitAll ==
    /\ pc = "collect"
    /\ \E c \in Range(children) \ yielded : st[c] = "failed"
    /\ \A c \in Range(children) : Finished(c)
    /\ pc' = "shutdown"
    /\ exitCode' = 1
    /\ UNCHANGED << env, i, queue, threads, idle, st, submits, runs, children,
                    yielded, uncaught, backlog, output, lateStart >>

\* as_completed yields a finished child and child.result() raises: sys.exit(1)
CollectFailed ==
    /\ pc = "collect"
    /\ \E c \in Range(children) \ yielded : st[c] = "failed"
    /\ pc' = "shutdown"
    /\ exitCode' = 1
    /\ UNCHANGED << env, i, queue, threads, idle, st, submits, runs, children,
                    yielded, uncaught, backlog, output, lateStart >>

\* variant with a reporter: one line per task and a total line are printed
\* before main() returns
CollectDone_Report ==
    /\ pc = "collect"
    /\ yielded = Range(children)
    /\ pc' = "shutdown"
    /\ exitCode' = 0
    /\ output' = << TypesTask >> \o children \o << "total" >>
    /\ UNCHANGED << env, i, queue, threads, idle, st, submits, runs, children,
                    yielded, uncaught, backlog, lateStart >>

\* as_completed is exhausted: main() returns
CollectDone ==
    /\ pc = "collect"
    /\ yielded = Range(children)
    /\ pc' = "shutdown"
    /\ exitCode' = 0
    /\ UNCHANGED << env, i, queue, threads, idle, st, submits, runs, children,
                    yielded, uncaught, backlog, output, lateStart >>

\* faulty variant: the exit handler does not let the workers drain the queue
ProcessExit_NoDrain ==
    /\ pc = "shutdown"
    /\ RunningOnPool = {}
    /\ pc' = "terminated"
    /\ UNCHANGED << env, i, queue, threads, idle, st, submits, runs, children,
                    yielded, exitCode, uncaught, backlog, output, lateStart >>

\* interpreter shutdown after main() ended (return, sys.exit or uncaught
\* exception): the pool's exit handler joins the worker threads, which
\* first drain the work queue; then the process ends with exitCode
ProcessExit ==
    /\ pc = "shutdown"
    /\ queue = << >>
    /\ RunningOnPool = {}
    /\ pc' = "terminated"
    /\ UNCHANGED << env, i, queue, threads, idle, st, submits, runs, children,
                    yielded, exitCode, uncaught, backlog, output, lateStart >>

\* a step of the main thread
MainStep ==
    \/ SubmitTypes
    \/ SubmitWave1
    \/ TypesOk
    \/ TypesFailed
    \/ LoopSubmit
    \/ LoopCall
    \/ InlineOk
    \/ InlineFailed
    \/ LoopEnd
    \/ CollectOk
    \/ CollectFailed
    \/ CollectDone
    \/ ProcessExit

Next ==
    \/ SubmitTypes
    \/ SubmitWave1
    \/ TypesOk
    \/ TypesFailed
    \/ LoopSubmit
    \/ LoopCall
    \/ InlineOk
    \/ InlineFailed
    \/ LoopEnd
    \/ CollectOk
    \/ CollectFailed
    \/ CollectDone
    \/ ProcessExit
    \/ WorkerStart
    \/ \E t \in Tasks : WorkerFinish(t, "ok")
    \/ \E t \in Tasks : WorkerFinish(t, "failed")

Spec == Init /\ [][Next]_vars

\* every task body terminates, the worker threads and the main thread are
\* scheduled fairly
FairSpec ==
    /\ Init
    /\ [][Next]_vars
    /\ WF_vars(MainStep)
    /\ WF_vars(WorkerStart)
    /\ \A t \in Tasks : WF_vars(WorkerFinish(t, "ok") \/ WorkerFinish(t, "failed"))

(***************************************************************************)
(* Properties                                                              *)
(***************************************************************************)

\* C1: once main() has ended, the exit code is 0 or 1; it is 0 only if
\* every task that was submitted or called has succeeded, 1 only if some
\* task failed, and when the process has ended it is 0 if and only if every
\* submitted or called task succeeded.
C1_ExitCodeIffAllSucceeded ==
    /\ pc \notin {"shutdown", "terminated"} => exitCode = "none"
    /\ pc \in {"shutdown", "terminated"} =>
          /\ exitCode \in {0, 1}
          /\ exitCode = 0 => \A t \in Tasks : Launched(t) => st[t] = "ok"
          /\ exitCode = 1 => \E t \in Tasks : Launched(t) /\ st[t] = "failed"
    /\ pc = "terminated" =>
          (exitCode = 0 <=> \A t \in Tasks : Launched(t) => st[t] = "ok")

\* a finished concurrent run whose only failure is an api-extractor task
C1_Witness ==
    /\ pc = "terminated"
    /\ ~env
    /\ exitCode = 1
    /\ \E p \in ApiTasks : st[p] = "failed"
    /\ \A t \in Tasks \ ApiTasks : st[t] = "ok"

\* C2: no build_api_extractor body is submitted, called or started unless
\* build_types has completed with outcome ok; after a failed build_types
\* every api-extractor task is still untouched.
C2_ApiOnlyAfterTypesOk ==
    /\ \A p \in ApiTasks : (Launched(p) \/ st[p] # "new") => st[TypesTask] = "ok"
    /\ st[TypesTask] = "failed" => \A p \in ApiTasks : ~Launched(p) /\ st[p] = "new"

\* an api-extractor body is executing (build_types succeeded before it)
C2_Witness ==
    /\ \E p \in ApiTasks : st[p] = "running"
    /\ st[TypesTask] = "ok"

\* C3: with terminating task bodies and fair scheduling the process always
\* ends, whatever the outcomes and although more children can be unfinished
\* than the pool has workers; and it ends with exit code 1 if and only if
\* some task body failed.
C3_Terminates ==
    <>[](/\ pc = "terminated"
         /\ exitCode = 1 <=> \E t \in Tasks : st[t] = "failed")

\* a run that ended cleanly although a task was submitted while MaxWorkers
\* others were unfinished
C3_Witness ==
    /\ pc = "terminated"
    /\ backlog
    /\ exitCode = 0

\* C4 (as amended): with the toggle unset, once build_types has succeeded
\* every api-extractor task is eventually submitted, and never more than
\* once, whatever the other tasks do; with the toggle set none is submitted
\* and, once build_types has succeeded, eventually either every one of them
\* has been called once or one of them has failed.
C4_FanOutWhenConcurrent ==
    /\ [](\A p \in ApiTasks : submits[p] <= 1 /\ runs[p] <= 1 /\ (env => submits[p] = 0))
    /\ (st[TypesTask] = "ok" /\ ~env) ~> (\A p \in ApiTasks : submits[p] = 1)
    /\ (st[TypesTask] = "ok" /\ env) ~>
          ((\A p \in ApiTasks : runs[p] = 1) \/ (\E p \in ApiTasks : st[p] = "failed"))

\* every api-extractor task was submitted although a wave-1 build had failed
C4_Witness ==
    /\ ~env
    /\ \A p \in ApiTasks : submits[p] = 1
    /\ \E w \in Wave1Tasks : st[w] = "failed"

\* C4 as stated: whenever build_types has succeeded, by the end of the run
\* each api-extractor task has been started exactly once.
C4_Original ==
    (pc = "terminated" /\ st[TypesTask] = "ok") =>
        \A p \in ApiTasks : Launched(p) /\ runs[p] = 1

\* C5: with the toggle set, the api-extractor bodies never go to the pool,
\* at most one of them is executing, a package is started only after every
\* earlier package in the list has completed successfully, and a run in
\* which every task succeeded ends with exit code 0.
C5_SequentialOneAtATime ==
    env =>
      /\ \A p \in ApiTasks : submits[p] = 0
      /\ Cardinality({ p \in ApiTasks : st[p] = "running" }) <= 1
      /\ \A k \in 1..Len(Pkgs) : \A j \in 1..(k - 1) :
            st[Pkgs[k]] # "new" => st[Pkgs[j]] = "ok"
      /\ (pc = "terminated" /\ \A t \in Tasks : st[t] = "ok") => exitCode = 0

\* a sequential run in which every task ran and succeeded
C5_Witness ==
    /\ env
    /\ pc = "terminated"
    /\ \A t \in Tasks : st[t] = "ok" /\ runs[t] = 1
    /\ exitCode = 0

\* C6: a running task body only ever goes on running or completes, the
\* process does not end while a started body has not completed, and
\* eventually no body is running any more (so every started body has
\* completed); this holds after main() has chosen exit code 1 too.
C6_NoCancellation ==
    /\ [][\A t \in Tasks : st[t] = "running" => st'[t] \in {"running", "ok", "failed"}]_vars
    /\ [](pc = "terminated" => \A t \in Tasks : runs[t] > 0 => Finished(t))
    /\ <>[](\A t \in Tasks : st[t] # "running")

\* build_types has failed and main() has left with sys.exit(1) while a
\* wave-1 build is still executing
C6_Witness ==
    /\ pc = "shutdown"
    /\ st[TypesTask] = "failed"
    /\ \E w \in Wave1Tasks : st[w] = "running"

\* C7: eventually every task submitted to the pool has a result, for good;
\* a result never changes, a submitted body runs at most once, and the
\* process does not end before every submitted task has its result.
C7_EverySubmittedTaskCompletes ==
    /\ <>[](\A t \in Tasks : submits[t] > 0 => Finished(t))
    /\ [][\A t \in Tasks : Finished(t) => st'[t] = st[t]]_vars
    /\ [](\A t \in Tasks : submits[t] > 0 => runs[t] <= 1)
    /\ [](pc = "terminated" => \A t \in Tasks : submits[t] > 0 => Finished(t))

\* main() has left with sys.exit(1) while a submitted task still waits in
\* the queue behind a fully occupied pool
C7_Witness ==
    /\ pc = "shutdown"
    /\ exitCode = 1
    /\ queue # << >>
    /\ Cardinality(RunningOnPool) = MaxWorkers

\* C8: at most MaxWorkers task bodies execute on the pool at once, and a
\* pending task starts only in a state where fewer than MaxWorkers do.
C8_AtMostMaxWorkersActive ==
    /\ [](Cardinality(RunningOnPool) <= MaxWorkers /\ threads <= MaxWorkers)
    /\ [][(\E t \in Tasks : st[t] = "pending" /\ st'[t] = "running")
             => Cardinality(RunningOnPool) < MaxWorkers]_vars

\* every child is unfinished and the pool is fully occupied
C8_Witness ==
    /\ Cardinality(RunningOnPool) = MaxWorkers
    /\ Cardinality(Unfinished) = Len(Wave1) + Len(Pkgs)

\* a submitted task waits in the queue while every worker slot is occupied
Blocked == queue # << >> /\ Cardinality(RunningOnPool) = MaxWorkers

\* C9 as stated: in no reachable state does a submitted task wait in the
\* queue because all worker slots are occupied.
C9_Original == ~Blocked

\* C9 (as amended): the declared tasks outnumber the workers; a submitted
\* task waits behind a fully occupied pool only with the toggle unset and
\* after build_types has succeeded, and then at most
\* Len(Wave1) + Len(Pkgs) - MaxWorkers tasks wait.
C9_QueueOnlyAfterFanOut ==
    /\ Cardinality(Tasks) > MaxWorkers
    /\ Blocked =>
          /\ ~env
          /\ st[TypesTask] = "ok"
          /\ pc \in {"loop", "collect", "shutdown"}
          /\ Len(queue) + MaxWorkers <= Len(Wave1) + Len(Pkgs)

\* as many tasks as can be wait behind the fully occupied pool
C9_Witness ==
    /\ Blocked
    /\ Len(queue) + MaxWorkers = Len(Wave1) + Len(Pkgs)

\* C10: no task body is entered more than once and no task is submitted
\* more than once, in either mode.
C10_AtMostOnce ==
    \A t \in Tasks : runs[t] <= 1 /\ submits[t] <= 1

\* a finished run in which every body ran, one of them failing
C10_Witness ==
    /\ pc = "terminated"
    /\ \A t \in Tasks : runs[t] = 1
    /\ \E t \in Tasks : st[t] = "failed"

\* C11 (as amended): as soon as a failed child can be yielded the collector
\* may leave with sys.exit(1), whatever the other children are doing; that
\* step changes no task, no future and not the queue (nothing is cancelled);
\* after it no further child is observed; and only successful children are
\* ever recorded as observed.
C11_CollectorExitsOnFirstFailure ==
    /\ []((pc = "collect" /\ \E c \in Range(children) \ yielded : st[c] = "failed")
             => ENABLED CollectFailed)
    /\ [][(pc = "collect" /\ pc' = "shutdown")
             => (yielded' = yielded /\ st' = st /\ queue' = queue)]_vars
    /\ [][(pc \in {"shutdown", "terminated"}) => (yielded' = yielded)]_vars
    /\ [](\A c \in yielded : st[c] = "ok")

\* the collector has left with sys.exit(1) while a child it never observed
\* is still executing
C11_Witness ==
    /\ pc = "shutdown"
    /\ i > Len(Pkgs)
    /\ exitCode = 1
    /\ \E c \in Range(children) \ yielded : st[c] = "running"

\* C11 as stated: when the collector produces the run's result after a
\* failure, every child has been awaited.
C11_Original ==
    (pc = "shutdown" /\ i > Len(Pkgs) /\ exitCode = 1) =>
        \A c \in Range(children) : Finished(c)

\* C12: once main() has ended no exception has left it uncaught (no
\* traceback), and if a task failed the exit code is 1.
C12_FailureNeverUncaught ==
    pc \in {"shutdown", "terminated"} =>
        /\ ~uncaught
        /\ (\E t \in Tasks : st[t] = "failed") => exitCode = 1

\* C13: when build_types has failed and main() waits on it, the exit is
\* enabled whatever the wave-1 builds are doing; the next step of main() is
\* the exit with code 1 through sys.exit (nothing uncaught); and no
\* api-extractor task is ever submitted or called, nor any child collected.
C13_TypesFailureExitsAtOnce ==
    /\ []((pc = "wait_e1" /\ st[TypesTask] = "failed") => ENABLED TypesFailed)
    /\ [][(pc = "wait_e1" /\ st[TypesTask] = "failed" /\ pc' # pc)
             => (pc' = "shutdown" /\ exitCode' = 1 /\ ~uncaught')]_vars
    /\ [](st[TypesTask] = "failed" =>
             /\ \A p \in ApiTasks : submits[p] = 0 /\ runs[p] = 0
             /\ yielded = {}
             /\ pc \in {"submit_wave1", "wait_e1", "shutdown", "terminated"})

\* main() has left after the failure of build_types while no wave-1 build
\* has completed yet
C13_Witness ==
    /\ pc = "shutdown"
    /\ exitCode = 1
    /\ st[TypesTask] = "failed"
    /\ \A w \in Wave1Tasks : ~Finished(w)

\* C14 (as amended): main() writes nothing to standard output in any run,
\* successful or failed; the exit code alone tells the outcome.
C14_NoTimingOutput ==
    /\ output = << >>
    /\ pc \in {"shutdown", "terminated"} => exitCode \in {0, 1}

\* a fully successful run has ended and nothing was printed
C14_Witness ==
    /\ pc = "terminated"
    /\ exitCode = 0
    /\ \A t \in Tasks : st[t] = "ok"
    /\ output = << >>

\* C14 as stated: after a fully successful run the output holds one line
\* per task followed by the total line; after a failed run it is empty.
C14_Original ==
    pc = "terminated" =>
        /\ exitCode = 0 =>
              /\ Len(output) = Cardinality({ t \in Tasks : Launched(t) }) + 1
              /\ output[Len(output)] = "total"
        /\ exitCode = 1 => output = << >>

\* C15: once main() is past the first submissions, build_types and every
\* wave-1 build have been submitted exactly once; up to and including the
\* wait on build_types no api-extractor task has been touched; and an
\* api-extractor task is submitted only after build_types succeeded.
C15_Wave1SubmittedBeforeWait ==
    /\ pc \notin {"submit_types", "submit_wave1"} =>
          \A t \in {TypesTask} \cup Wave1Tasks : submits[t] = 1
    /\ pc \in {"submit_types", "submit_wave1", "wait_e1"} =>
          \A p \in ApiTasks : submits[p] = 0 /\ runs[p] = 0 /\ st[p] = "new"
    /\ \A p \in ApiTasks : submits[p] > 0 =>
          (st[TypesTask] = "ok" /\ pc \in {"loop", "collect", "shutdown", "terminated"})

\* main() waits on build_types while it and every wave-1 build are executing
C15_Witness ==
    /\ pc = "wait_e1"
    /\ st[TypesTask] = "running"
    /\ \A w \in Wave1Tasks : st[w] = "running"

\* C16 (as amended): before the collector loop main() leaves only because
\* build_types failed or an inline api-extractor call raised, never because
\* of a wave-1 build; the package loop can always take its next package,
\* whatever has failed; and a run in which build_types succeeded and a
\* wave-1 build failed ends with exit code 1 after every api-extractor body
\* was entered once, unless, with the toggle set, an api-extractor call
\* failed.
C16_Wave1FailureSeenOnlyByCollector ==
    /\ [][(pc \in {"submit_wave1", "wait_e1", "loop", "inline"} /\ pc' = "shutdown")
             => (st[TypesTask] = "failed" \/ uncaught')]_vars
    /\ []((pc = "loop" /\ i <= Len(Pkgs)) => ENABLED (LoopSubmit \/ LoopCall))
    /\ []((pc = "terminated" /\ st[TypesTask] = "ok"
              /\ \E w \in Wave1Tasks : st[w] = "failed") =>
             /\ exitCode = 1
             /\ \/ \A p \in ApiTasks : runs[p] = 1
                \/ env /\ \E p \in ApiTasks : st[p] = "failed")

\* a run has ended with exit code 1 in which an api-extractor body was
\* entered after a task had failed, and every api-extractor body ran
C16_Witness ==
    /\ pc = "terminated"
    /\ lateStart
    /\ exitCode = 1
    /\ \E w \in Wave1Tasks : st[w] = "failed"
    /\ \A p \in ApiTasks : runs[p] = 1

\* C16 as stated: whenever build_types succeeded and a wave-1 build failed,
\* every api-extractor body has been started by the end of the run, and the
\* run exits with status 1.
C16_Original ==
    (pc = "terminated" /\ st[TypesTask] = "ok"
        /\ \E w \in Wave1Tasks : st[w] = "failed") =>
            /\ exitCode = 1
            /\ \A p \in ApiTasks : runs[p] = 1

\* C17: with the toggle set, once an api-extractor call has failed main()
\* has left with exit code 1 through the uncaught exception, the failed
\* package is the one the loop stopped at, no later package was or will be
\* entered, and no child was collected; the process still ends only after
\* every wave-1 build has completed, and it does end.
C17_SequentialFailureStopsTheLoop ==
    /\ []((env /\ \E p \in ApiTasks : st[p] = "failed") =>
             /\ pc \in {"shutdown", "terminated"}
             /\ exitCode = 1
             /\ uncaught
             /\ yielded = {}
             /\ st[Pkgs[i]] = "failed"
             /\ \A k \in (i + 1)..Len(Pkgs) : st[Pkgs[k]] = "new" /\ runs[Pkgs[k]] = 0)
    /\ [](pc = "terminated" => \A w \in Wave1Tasks : Finished(w))
    /\ <>[](pc = "terminated")

\* an inline api-extractor call that is not the last has failed and main()
\* has left while a wave-1 build is still executing
C17_Witness ==
    /\ env
    /\ pc = "shutdown"
    /\ uncaught
    /\ i < Len(Pkgs)
    /\ \E w \in Wave1Tasks : st[w] = "running"

====
